---- MODULE Spec2Model ----
(***************************************************************************)
(* The session layer of the XTB API wrapper: the socket handle, the        *)
(* liveness timestamp, connect/disconnect, login/logout and the blocking   *)
(* send primitive, as implemented by class XTB (xtb_api.py), by class       *)
(* XTBConnectionManager with XTBAuth on top of it                          *)
(* (xtb_connection_manager.py, xtb_auth.py) and by class XtbConnectivity   *)
(* (xtb_connection.py).                                                    *)
(*                                                                         *)
(* The websocket library and the server are the environment: every call    *)
(* of create_connection, close, send and recv draws its outcome from a     *)
(* small set, and the server's reply to a command is drawn from Replies.   *)
(* Time is counted in whole seconds.                                       *)
(***************************************************************************)
EXTENDS Integers, Sequences, FiniteSets, TLC

\* variant: the class of the session object; phase: "new" before the
\* constructor ran, "live" after it returned, "failed" after it raised;
\* now: the wall clock; ws, exec_start: the object's fields; socks: the
\* sockets created so far; trace: the writes and reads that reached a
\* socket, in order; calls: the invocations of send so far; oks: those that
\* returned a reply; last: the record of the last operation; app: the
\* arguments and the result of the last candle, time or ping operation;
\* thr: for each thread that calls send() on the session, where in send()
\* it is, its request, and the request whose reply it was handed.
VARIABLES variant, phase, now, ws, exec_start, socks, trace, calls, oks, last,
          app, thr

vars == <<variant, phase, now, ws, exec_start, socks, trace, calls, oks, last,
          app, thr>>

\* ------------------------------------------------------------------ bounds
MaxTime == 16
MaxCalls == 2
MaxSockets == 2
MaxRates == 4
MaxQty == 5
MaxDuration == 3
MaxThreads == 2

\* --------------------------------------------------------------- constants
\* is_on: "if temp>=8.0"
Threshold == 8

\* The time that passes between two operations: just under the threshold,
\* or the threshold.
TickSteps == {Threshold - 1, Threshold}

\* The classes that own a socket and a liveness timestamp.
Variants == {"XTB", "XTBConnectionManager", "XtbConnectivity"}

\* websocket.create_connection / ws.close(): it returns, or raises a
\* WebSocketException, or raises some other exception (an OSError such as
\* ConnectionRefusedError).
LibOutcomes == {"ok", "WebSocketException", "OSError"}

\* ws.send(msg) / ws.recv() on an open socket: both succeed, the write
\* raises, or the write succeeds and the read raises.
IoOutcomes == {"ok", "write_raises", "read_raises"}

\* What the server answers: {"status": true, ...}, {"status": false,
\* "errorCode": .., "errorDescr": ..}, a JSON object without "status", or
\* text that is not JSON.
Replies == {"status_true", "status_false", "no_status", "not_json"}

Exceptions ==
  {"AttributeError", "WebSocketException", "OSError", "JSONDecodeError", "KeyError",
   "TypeError", "ConnectionRefusedError", "ValueError", "IndexError"}

Raised(ret) == ret \in Exceptions

\* ----------------------------------------------------------------- sockets
\* A socket the library created: whether the handle is still usable, whether
\* a login succeeded on it, and the replies the server has queued on it.
NewSocket == [open |-> TRUE, authed |-> FALSE, pending |-> <<>>]

\* The object's fields and the transport log, as one value the methods
\* transform. ev is the log of library calls made by the running operation.
Cur == [ws |-> ws, exec_start |-> exec_start, socks |-> socks,
        trace |-> trace, ev |-> <<>>]

Log(s, e) == [s EXCEPT !.ev = Append(@, e)]

\* True for the bare "except:" of class XTB, false for
\* "except (websocket.WebSocketException)" of XTBConnectionManager and
\* XtbConnectivity.
CatchesAll(v) == v = "XTB"

\* ----------------------------------------------------------------- connect
\* A connect that reports success whatever create_connection did.
connect_reports_true(s, out, v) ==
  IF out = "ok"
    THEN [s |-> [Log(s, "connect_ok") EXCEPT !.socks = Append(@, NewSocket),
                                             !.ws = Len(s.socks) + 1],
          ret |-> "True"]
    ELSE [s |-> Log(s, "connect_failed"), ret |-> "True"]

\* connect(): self.ws = websocket.create_connection(url); True, or False
\* when the exception is caught; the handle is assigned only on success.
connect(s, out, v) ==
  IF out = "ok"
    THEN [s |-> [Log(s, "connect_ok") EXCEPT !.socks = Append(@, NewSocket),
                                             !.ws = Len(s.socks) + 1],
          ret |-> "True"]
    ELSE [s |-> Log(s, "connect_failed"),
          ret |-> IF out = "WebSocketException" \/ CatchesAll(v)
                    THEN "False" ELSE out]

\* -------------------------------------------------------------- disconnect
\* disconnect(): self.ws.close() inside try/except. With no handle stored
\* (ws is 0 or None) the attribute lookup raises AttributeError, which only
\* the bare except of XTB catches.
disconnect(s, out, v) ==
  IF s.ws = 0
    THEN [s |-> s, ret |-> IF CatchesAll(v) THEN "False" ELSE "AttributeError"]
    ELSE IF out = "ok"
      THEN [s |-> [Log(s, "close") EXCEPT !.socks[s.ws].open = FALSE],
            ret |-> "True"]
      ELSE [s |-> Log(s, "close_failed"),
            ret |-> IF out = "WebSocketException" \/ CatchesAll(v)
                      THEN "False" ELSE out]

\* ------------------------------------------------------------------- is_on
\* The liveness test with the comparison off by one.
IdleTooLong_strict(elapsed) == elapsed > Threshold

\* is_on: "if temp>=8.0"
IdleTooLong(elapsed) == elapsed >= Threshold

\* is_on without its last line.
stamp_skipped(s, t) == s

\* is_on: "self.exec_start = self.get_time()"
stamp(s, t) == [s EXCEPT !.exec_start = t]

\* The time is_on() works with when the clock reads t: self.get_time() is
\* a call in XTB and XTBConnectionManager; in XtbConnectivity self.get_time
\* is the attribute assigned in __init__, the value exec_start was given.
is_on_time(s, t, v) == IF v = "XtbConnectivity" THEN s.exec_start ELSE t

\* is_on(): reconnect when the session has been idle for the threshold,
\* then record the time. An exception leaving connect() leaves is_on()
\* before the timestamp is written.
is_on(s, t, connOut, v) ==
  IF IdleTooLong(is_on_time(s, t, v) - s.exec_start)
    THEN LET c == connect(s, connOut, v)
         IN  IF Raised(c.ret)
               THEN [s |-> c.s, ret |-> c.ret]
               ELSE [s |-> stamp(c.s, is_on_time(s, t, v)), ret |-> "None"]
    ELSE [s |-> stamp(s, is_on_time(s, t, v)), ret |-> "None"]

\* -------------------------------------------------------------------- send
\* ws.send(msg) on an open socket: the message reaches the server, which
\* queues its reply on that socket.
ws_send(s, req) ==
  [Log(s, "write") EXCEPT !.trace = Append(@, <<"w", req>>),
                          !.socks[s.ws].pending = Append(@, req)]

\* A read that returns without taking the reply off the socket.
ws_recv_skipped(s) == [s |-> s, reply_to |-> 0]

\* ws.recv() on an open socket: the oldest queued reply.
ws_recv(s) ==
  LET q == s.socks[s.ws].pending
  IN  [s |-> [Log(s, "read") EXCEPT !.trace = Append(@, <<"r", Head(q)>>),
                                    !.socks[s.ws].pending = Tail(q)],
       reply_to |-> Head(q)]

\* A lost connection: the handle is no longer usable.
Broken(s) == [s EXCEPT !.socks[s.ws].open = FALSE]

\* send(msg): is_on(); self.ws.send(msg); result = self.ws.recv().
\* reply_to is the request whose reply the caller is handed (0: none).
send(s, t, req, connOut, io, v) ==
  LET a == is_on(s, t, connOut, v)
  IN  IF Raised(a.ret)
        THEN [s |-> a.s, ret |-> a.ret, reply_to |-> 0]
      ELSE IF a.s.ws = 0
        THEN [s |-> a.s, ret |-> "AttributeError", reply_to |-> 0]
      ELSE IF ~a.s.socks[a.s.ws].open
        THEN [s |-> a.s, ret |-> "WebSocketException", reply_to |-> 0]
      ELSE IF io = "write_raises"
        THEN [s |-> Broken(a.s), ret |-> "OSError", reply_to |-> 0]
      ELSE LET w == ws_send(a.s, req)
           IN  IF io = "read_raises"
                 THEN [s |-> Broken(w), ret |-> "WebSocketException", reply_to |-> 0]
                 ELSE LET r == ws_recv(w)
                      IN  [s |-> r.s, ret |-> "ok", reply_to |-> r.reply_to]

\* ------------------------------------------------------------ login/logout
\* The server's side of a command it has answered: a login answered with
\* status true authenticates the socket, a logout answered with status true
\* ends the authentication.
Served(s, cmd, reply) ==
  IF reply # "status_true" THEN s
  ELSE [s EXCEPT !.socks[s.ws].authed = (cmd = "login")]

\* XTB.login(): result = json.loads(self.send(..)); status = result["status"];
\* True when str(status) == "True", otherwise False. descr is what the
\* outcome carries of the server's errorDescr.
XTB_login(s, t, req, connOut, io, reply) ==
  LET r == send(s, t, req, connOut, io, "XTB")
  IN  IF Raised(r.ret)
        THEN [s |-> r.s, ret |-> r.ret, send |-> r.ret, reply_to |-> 0, descr |-> "none"]
        ELSE [s |-> Served(r.s, "login", reply),
              ret |-> CASE reply = "not_json" -> "JSONDecodeError"
                        [] reply = "no_status" -> "KeyError"
                        [] reply = "status_true" -> "True"
                        [] OTHER -> "False",
              send |-> "ok", reply_to |-> r.reply_to, descr |-> "none"]

\* XTBAuth.login(): the payload is built from self.user_id and
\* self.user_pswd, which XTBAuth.__init__ never sets: AttributeError before
\* anything is sent.
XTBAuth_login(s, t, req, connOut, io, reply) ==
  [s |-> s, ret |-> "AttributeError", send |-> "none", reply_to |-> 0, descr |-> "none"]

\* XtbConnectivity.login(): as XTB.login, but a status other than true
\* raises ConnectionRefusedError(result['errorDescr']). Its is_on() reads
\* the attribute self.get_time, the time stored by __init__, which is also
\* the value of exec_start: the elapsed time it computes is always 0.
XtbConnectivity_login(s, t, req, connOut, io, reply) ==
  LET r == send(s, s.exec_start, req, connOut, io, "XtbConnectivity")
  IN  IF Raised(r.ret)
        THEN [s |-> r.s, ret |-> r.ret, send |-> r.ret, reply_to |-> 0, descr |-> "none"]
        ELSE [s |-> Served(r.s, "login", reply),
              ret |-> CASE reply = "not_json" -> "JSONDecodeError"
                        [] reply = "no_status" -> "KeyError"
                        [] reply = "status_true" -> "True"
                        [] OTHER -> "ConnectionRefusedError",
              send |-> "ok", reply_to |-> r.reply_to,
              descr |-> IF reply = "status_false" THEN "errorDescr" ELSE "none"]

login(s, t, req, connOut, io, reply, v) ==
  CASE v = "XTB" -> XTB_login(s, t, req, connOut, io, reply)
    [] v = "XtbConnectivity" -> XtbConnectivity_login(s, t, req, connOut, io, reply)
    [] OTHER -> XTBAuth_login(s, t, req, connOut, io, reply)

\* XTB.logout(): send, json.loads, result["status"], then self.disconnect(),
\* then True or False by the status. An exception raised by send, by
\* json.loads or by the subscript leaves logout() before disconnect().
XTB_logout(s, t, req, connOut, io, reply, closeOut) ==
  LET r == send(s, t, req, connOut, io, "XTB")
  IN  IF Raised(r.ret)
        THEN [s |-> r.s, ret |-> r.ret, send |-> r.ret, reply_to |-> 0]
      ELSE IF reply \in {"not_json", "no_status"}
        THEN [s |-> Served(r.s, "logout", reply),
              ret |-> IF reply = "not_json" THEN "JSONDecodeError" ELSE "KeyError",
              send |-> "ok", reply_to |-> r.reply_to]
      ELSE LET d == disconnect(Served(r.s, "logout", reply), closeOut, "XTB")
           IN  [s |-> d.s,
                ret |-> IF reply = "status_true" THEN "True" ELSE "False",
                send |-> "ok", reply_to |-> r.reply_to]

\* XTBAuth.logout(): try: send through api.connection and parse;
\* finally: self.disconnect(). XTBAuth defines no disconnect, so the
\* finally clause raises AttributeError and the transport is left as it is.
XTBAuth_logout(s, t, req, connOut, io, reply, closeOut) ==
  LET r == send(s, t, req, connOut, io, "XTBConnectionManager")
  IN  IF Raised(r.ret)
        THEN [s |-> r.s, ret |-> "AttributeError", send |-> r.ret, reply_to |-> 0]
        ELSE [s |-> Served(r.s, "logout", reply), ret |-> "AttributeError",
              send |-> "ok", reply_to |-> r.reply_to]

\* XtbConnectivity.logout(): as XTB.logout, with the disconnect() of
\* XtbConnectivity, which lets exceptions other than WebSocketException
\* through, and with the elapsed time of its is_on(), which is always 0.
XtbConnectivity_logout(s, t, req, connOut, io, reply, closeOut) ==
  LET r == send(s, s.exec_start, req, connOut, io, "XtbConnectivity")
  IN  IF Raised(r.ret)
        THEN [s |-> r.s, ret |-> r.ret, send |-> r.ret, reply_to |-> 0]
      ELSE IF reply \in {"not_json", "no_status"}
        THEN [s |-> Served(r.s, "logout", reply),
              ret |-> IF reply = "not_json" THEN "JSONDecodeError" ELSE "KeyError",
              send |-> "ok", reply_to |-> r.reply_to]
      ELSE LET d == disconnect(Served(r.s, "logout", reply), closeOut,
                               "XtbConnectivity")
           IN  [s |-> d.s,
                ret |-> IF Raised(d.ret) THEN d.ret
                        ELSE IF reply = "status_true" THEN "True" ELSE "False",
                send |-> "ok", reply_to |-> r.reply_to]

logout(s, t, req, connOut, io, reply, closeOut, v) ==
  CASE v = "XTB" -> XTB_logout(s, t, req, connOut, io, reply, closeOut)
    [] v = "XtbConnectivity" ->
         XtbConnectivity_logout(s, t, req, connOut, io, reply, closeOut)
    [] OTHER -> XTBAuth_logout(s, t, req, connOut, io, reply, closeOut)

\* ------------------------------------------------------------ constructors
\* XTB.__init__: self.ws = 0; self.exec_start = self.get_time();
\* self.connect(); self.login(). The results of both are ignored; an
\* exception leaving login() leaves the constructor.
XTB_init(s, t, connOut, io, reply) ==
  LET c == connect(stamp([s EXCEPT !.ws = 0], t), connOut, "XTB")
  IN  XTB_login(c.s, t, 1, connOut, io, reply)

\* XTBConnectionManager.__init__: self.ws = None; self.exec_start =
\* self.get_time(); self.connect().
XTBConnectionManager_init(s, t, connOut) ==
  LET c == connect(stamp([s EXCEPT !.ws = 0], t), connOut, "XTBConnectionManager")
  IN  [s |-> c.s, ret |-> c.ret, send |-> "none", reply_to |-> 0, descr |-> "none"]

\* XtbConnectivity.__init__: self.ws = None; self.get_time =
\* XtbUtils.get_time(self). get_time is a static method without parameters,
\* so the call raises TypeError and no object is ever constructed.
XtbConnectivity_init(s, t) ==
  [s |-> [s EXCEPT !.ws = 0], ret |-> "TypeError", send |-> "none",
   reply_to |-> 0, descr |-> "none"]

\* ------------------------------------------------------------ session state
\* The state of the session as the specification names it, read off the
\* handle: no usable socket, a usable socket, a usable socket on which a
\* login succeeded.
StateOf(h, ss) ==
  IF h = 0 \/ ~ss[h].open THEN "DISCONNECTED"
  ELSE IF ss[h].authed THEN "AUTHENTICATED"
  ELSE "CONNECTED"

SessionState == StateOf(ws, socks)

\* The record kept of the last operation: which one, when, how long after
\* the recorded activity, in which session state, the library calls it
\* made, what it returned or raised, what the send inside it returned or
\* raised, its request, the request whose reply it was handed, the reply.
NoOp == [op |-> "none", t |-> 0, elapsed |-> 0, before |-> "DISCONNECTED",
         ev |-> <<>>, ret |-> "none", send |-> "none", req |-> 0,
         reply_to |-> 0, reply |-> "none", descr |-> "none"]

Done(op, r, req, reply) ==
  [op |-> op, t |-> now, elapsed |-> now - exec_start, before |-> SessionState,
   ev |-> r.s.ev, ret |-> r.ret, send |-> r.send, req |-> req,
   reply_to |-> r.reply_to,
   reply |-> IF r.send = "ok" THEN reply ELSE "none",
   descr |-> r.descr]

Set(s) ==
  /\ ws' = s.ws
  /\ exec_start' = s.exec_start
  /\ socks' = s.socks
  /\ trace' = s.trace

\* The inputs an operation consumes. The outcome of create_connection is
\* drawn only when the liveness check is due to reconnect, the outcome of
\* the write and the read only when the check leaves a usable socket, the
\* server's reply only when it is read, and the outcome of close() only
\* when logout() gets as far as disconnect().
Usable(s) == s.ws # 0 /\ s.socks[s.ws].open

ConnInputs ==
  IF IdleTooLong(is_on_time(Cur, now, variant) - exec_start)
    THEN LibOutcomes ELSE {"ok"}

IoInputs(connOut) ==
  LET a == is_on(Cur, now, connOut, variant)
  IN  IF ~Raised(a.ret) /\ Usable(a.s) THEN IoOutcomes ELSE {"ok"}

ReplyInputs(connOut, io) ==
  IF io = "ok" /\ IoInputs(connOut) = IoOutcomes THEN Replies ELSE {"status_true"}

CloseInputs(connOut, io, reply) ==
  IF ReplyInputs(connOut, io) = Replies /\ reply \in {"status_true", "status_false"}
    THEN LibOutcomes ELSE {"ok"}

\* No more than MaxSockets sockets are created.
Room(s) == Len(s.socks) <= MaxSockets

\* ========================================================== candle shaping
\* The i-th rate record of a reply: {"ctm", "ctmString", "open", "close",
\* "high", "low", "vol"}, all different from one record to the next.
Rate(i) == [ctmString |-> i, open |-> 100 + i, close |-> 200 + i,
            high |-> 300 + i, low |-> 400 + i, vol |-> 500 + i]

\* A reply to a chart request with n rate records, the first being record
\* base + 1, and the digits field.
ChartReply(n, base, digits) ==
  [status |-> TRUE,
   returnData |-> [rateInfos |-> [i \in 1..n |-> Rate(base + i)],
                   digits |-> digits]]

\* A reply that reports an error: no returnData.
ErrorReply == [status |-> FALSE, errorCode |-> "BE", errorDescr |-> "descr"]

Max(a, b) == IF a >= b THEN a ELSE b

\* A price record of the result: the five fields of the rate record.
Candle(rate) == [datetime |-> rate.ctmString, open |-> rate.open,
                 close |-> rate.close, high |-> rate.high, low |-> rate.low]

\* data.get("returnData", {}).get("rateInfos", [])
rate_infos_of(data) ==
  IF "returnData" \in DOMAIN data /\ "rateInfos" \in DOMAIN data.returnData
    THEN data.returnData.rateInfos ELSE <<>>

\* data.get("returnData", {}).get("digits", 5)
digits_of(data) ==
  IF "returnData" \in DOMAIN data /\ "digits" \in DOMAIN data.returnData
    THEN data.returnData.digits ELSE 5

\* A slice that starts at the first record whatever the count.
start_index_zero(n, qty_candles) == 0

\* start_index = max(0, len(rate_infos) - qty_candles) if qty_candles else 0
start_index(n, qty_candles) ==
  IF qty_candles # 0 THEN Max(0, n - qty_candles) ELSE 0

\* A metadata count that is the count asked for, also when none was.
meta_count_asked(n, qty_candles) == qty_candles

\* "qty_candles": qty_candles or len(rate_infos)
meta_count(n, qty_candles) == IF qty_candles # 0 THEN qty_candles ELSE n

\* An emptiness test that never finds the reply empty.
no_rates_never(rate_infos) == FALSE

\* "if not rate_infos"
no_rates(rate_infos) == rate_infos = <<>>

\* _parse_candle_response(data, qty_candles): False for a reply without
\* rate records, otherwise the list [metadata] + [price record for each of
\* rate_infos[start_index:]], given here as its head meta and its tail
\* prices.
parse_candle_response(data, qty_candles) ==
  LET rate_infos == rate_infos_of(data)
      n == Len(rate_infos)
      first == start_index(n, qty_candles)
  IN  IF no_rates(rate_infos)
        THEN [ret |-> "False"]
        ELSE [ret |-> "list",
              meta |-> [digits |-> digits_of(data),
                        qty_candles |-> meta_count(n, qty_candles)],
              prices |-> [i \in 1..(n - first) |-> Candle(rate_infos[first + i])]]

\* rateInfos[i] for a Python index i that may be negative: it counts from
\* the end, and an index below -len raises IndexError.
PyIndexOk(n, i) == -n <= i /\ i < n
PyIndex(seq, i) == IF i >= 0 THEN seq[i + 1] ELSE seq[Len(seq) + i + 1]

\* The shaping at the end of XTB.get_candles_range: qty = len(rateInfos);
\* the metadata count is qty or qty_candles; start_qty = qty - qty_candles
\* (0 without a count or without records); one price record for each i in
\* range(start_qty, qty); False when only the metadata record was built.
range_shape(result, qty_candles) ==
  IF ~("returnData" \in DOMAIN result) THEN [ret |-> "KeyError"]
  ELSE
  LET rateInfos == result.returnData.rateInfos
      qty == Len(rateInfos)
      start_qty == IF qty_candles = 0 \/ qty = 0 THEN 0 ELSE qty - qty_candles
      idx == [i \in 1..Max(0, qty - start_qty) |-> start_qty + i - 1]
  IN  IF \E i \in DOMAIN idx : ~PyIndexOk(qty, idx[i])
        THEN [ret |-> "IndexError"]
      ELSE IF idx = <<>>
        THEN [ret |-> "False"]
      ELSE [ret |-> "list",
            meta |-> [digits |-> result.returnData.digits,
                      qty_candles |-> IF qty_candles = 0 THEN qty ELSE qty_candles],
            prices |-> [i \in DOMAIN idx |-> Candle(PyIndex(rateInfos, idx[i]))]]

\* The number of records in a result that is a list.
ListLen(out) == 1 + Len(out.prices)

\* ========================================================== dates and times
\* The format every date string is parsed with, and another one.
MDY == "%m/%d/%Y %H:%M:%S"
YMD == "%Y-%m-%d %H:%M:%S"

\* A date string: its layout and the numbers written in it.
DateStr(fmt, mo, dd, yyyy, HH, MM, SS) ==
  [kind |-> "str", fmt |-> fmt, mo |-> mo, dd |-> dd, yyyy |-> yyyy,
   HH |-> HH, MM |-> MM, SS |-> SS]

\* The default value 0 of the parameters start and end.
Unspecified ==
  [kind |-> "int", fmt |-> "", mo |-> 0, dd |-> 0, yyyy |-> 0,
   HH |-> 0, MM |-> 0, SS |-> 0]

IsLeap(y) == (y % 4 = 0 /\ y % 100 # 0) \/ y % 400 = 0

DaysInMonth(y, m) ==
  CASE m = 2 -> IF IsLeap(y) THEN 29 ELSE 28
    [] m \in {4, 6, 9, 11} -> 30
    [] OTHER -> 31

\* The days of year y before the first day of month m (m = 13: the days of
\* the year).
DaysBeforeMonth(y, m) ==
  LET before == <<0, 31, 59, 90, 120, 151, 181, 212, 243, 273, 304, 334, 365>>
  IN  before[m] + IF m > 2 /\ IsLeap(y) THEN 1 ELSE 0

\* The days from 01/01/0001 to the first day of year y.
DaysBeforeYearOne(y) ==
  ((y - 1) * 365) + ((y - 1) \div 4) - ((y - 1) \div 100) + ((y - 1) \div 400)

\* The days from 01/01/1970 to the first day of year y.
DaysBeforeYear(y) == DaysBeforeYearOne(y) - DaysBeforeYearOne(1970)

\* A datetime, and a timedelta, as days and seconds of the day counted
\* from 01/01/1970 00:00:00.
DateTime(total_seconds) ==
  [days |-> total_seconds \div 86400, seconds |-> total_seconds % 86400]

TotalSeconds(dt) == dt.days * 86400 + dt.seconds

\* datetime.strptime(x, '%m/%d/%Y %H:%M:%S'): TypeError when x is not a
\* string, ValueError when it does not match the format or names no date.
strptime(x) ==
  IF x.kind # "str" THEN [ret |-> "TypeError"]
  ELSE IF \/ x.fmt # MDY
          \/ x.mo \notin 1..12
          \/ x.yyyy \notin 1..9999
          \/ x.dd \notin 1..DaysInMonth(x.yyyy, x.mo)
          \/ x.HH \notin 0..23 \/ x.MM \notin 0..59 \/ x.SS \notin 0..59
    THEN [ret |-> "ValueError"]
  ELSE [ret |-> "ok",
        dt |-> [days |-> DaysBeforeYear(x.yyyy) + DaysBeforeMonth(x.yyyy, x.mo)
                           + x.dd - 1,
                seconds |-> x.HH * 3600 + x.MM * 60 + x.SS]]

\* dt.strftime('%m/%d/%Y %H:%M:%S')
strftime(dt) ==
  LET y == CHOOSE y \in 1968..1972 :
             DaysBeforeYear(y) <= dt.days /\ dt.days < DaysBeforeYear(y + 1)
      d == dt.days - DaysBeforeYear(y)
      m == CHOOSE m \in 1..12 :
             DaysBeforeMonth(y, m) <= d /\ d < DaysBeforeMonth(y, m + 1)
  IN  DateStr(MDY, m, d - DaysBeforeMonth(y, m) + 1, y,
              dt.seconds \div 3600, (dt.seconds % 3600) \div 60, dt.seconds % 60)

\* A conversion that takes an hour for a minute.
to_milliseconds_short_hours(days, hours, minutes) ==
  (days*24*60*60*1000) + (hours*60*1000) + (minutes*60*1000)

\* to_milliseconds(days, hours, minutes)
to_milliseconds(days, hours, minutes) ==
  (days*24*60*60*1000) + (hours*60*60*1000) + (minutes*60*1000)

\* XTB.time_conversion(date): the difference to 01/01/1970 00:00:00 is
\* printed, the text is split at ", " into the days part and the H:MM:SS
\* part, and hours+=2 before the sum. A difference of less than a day
\* prints without ", ": the unpacking raises ValueError.
XTB_time_conversion(date) ==
  LET p == strptime(date)
  IN  IF p.ret # "ok" THEN [ret |-> p.ret]
      ELSE IF p.dt.days = 0 THEN [ret |-> "ValueError"]
      ELSE LET days == p.dt.days
               hours == (p.dt.seconds \div 3600) + 2
               minutes == (p.dt.seconds % 3600) \div 60
               seconds == p.dt.seconds % 60
           IN  [ret |-> "ok",
                ms |-> (days*24*60*60*1000) + (hours*60*60*1000)
                         + (minutes*60*1000) + (seconds*1000)]

\* XtbUtils.time_conversion(date_str): int(delta.total_seconds() * 1000);
\* a ValueError of strptime is raised again as ValueError.
XtbUtils_time_conversion(date_str) ==
  LET p == strptime(date_str)
  IN  IF p.ret # "ok" THEN [ret |-> p.ret]
      ELSE [ret |-> "ok", ms |-> TotalSeconds(p.dt) * 1000]

time_conversion(cls, date) ==
  IF cls = "XTB" THEN XTB_time_conversion(date)
  ELSE XtbUtils_time_conversion(date)

\* The local date and time when the session clock reads 0, and get_time()
\* when it reads t. Dates are kept in the first weeks of 1970, where every
\* millisecond count fits the integers of the model checker.
ClockOrigin == DateStr(MDY, 1, 10, 1970, 0, 0, 0)

get_time(t) == DateTime(TotalSeconds(strptime(ClockOrigin).dt) + t)

\* ================================================== commands and replies
\* Text read from the socket that is not JSON.
NotJson == [text |-> "<html>"]

IsJson(reply) == "text" \notin DOMAIN reply

\* {"status": true}
StatusReply == [status |-> TRUE]

\* The reply to getServerTime: returnData.time in milliseconds.
TimeReply(time) == [status |-> TRUE, returnData |-> [time |-> time]]

\* A reply as the session record names it.
ReplyKind(reply) ==
  IF ~IsJson(reply) THEN "not_json"
  ELSE IF "status" \notin DOMAIN reply THEN "no_status"
  ELSE IF reply.status THEN "status_true"
  ELSE "status_false"

\* A value of a payload field that is a number in one call and text in
\* another.
PyInt(n) == [int |-> n]
PyStr(text) == [str |-> text]

\* The commands written by the operations below.
PingCommand == [command |-> "ping"]
ServerTimeCommand == [command |-> "getServerTime"]

\* _prepare_candle_payload(symbol, period, start)
prepare_candle_payload(period, start) ==
  [command |-> "getChartLastRequest", period |-> period, start |-> start]

\* The chart_range_info_record of get_candles_range.
chart_range_info_record(period, start, end) ==
  [command |-> "getChartRangeRequest", period |-> period, start |-> start,
   end |-> end]

\* The value of an expression, computed once.
The(S) == CHOOSE x \in S : TRUE

\* json.loads applied to what send returned: x is the outcome of send, s
\* the session before it. sent is the payload if it was written to the
\* socket.
json_loads(s, x, payload, reply) ==
  [s |-> x.s, send |-> x.ret, reply_to |-> x.reply_to,
   sent |-> IF Len(x.s.trace) > Len(s.trace) THEN <<payload>> ELSE <<>>,
   ret |-> IF Raised(x.ret) THEN x.ret
           ELSE IF ~IsJson(reply) THEN "JSONDecodeError"
           ELSE "ok",
   reply |-> IF Raised(x.ret) THEN "none" ELSE ReplyKind(reply),
   read |-> IF Raised(x.ret) THEN <<>> ELSE <<reply>>,
   n_oks |-> IF Raised(x.ret) THEN 0 ELSE 1]

\* json.loads(self.send(json.dumps(payload))): the exception of send, or
\* JSONDecodeError when the text read is not JSON, or the parsed reply.
json_call(s, t, req, payload, connOut, io, reply, v) ==
  The({json_loads(s, x, payload, reply) : x \in {send(s, t, req, connOut, io, v)}})

\* What an operation leaves: the session, what it returned or raised (out
\* is the value in full), the outcome of its last send, the payloads it
\* wrote and the replies it read, and how many sends it invoked and how
\* many of them returned.
Outcome(c, out, sent, read, n_calls, n_oks) ==
  [s |-> c.s, ret |-> out.ret, out |-> out, send |-> c.send,
   reply_to |-> c.reply_to, descr |-> "none", sent |-> sent, read |-> read,
   reply |-> c.reply, n_calls |-> n_calls, n_oks |-> n_oks]

\* An operation that ends before it invokes send.
Local(s, out) ==
  [s |-> s, ret |-> out.ret, out |-> out, send |-> "none", reply_to |-> 0,
   descr |-> "none", sent |-> <<>>, read |-> <<>>, reply |-> "none",
   n_calls |-> 0, n_oks |-> 0]

\* -------------------------------------------------------------------- ping
\* XTB.ping(): "return result["status"]", c being the outcome of
\* json.loads(self.send(..)).
XTB_ping_return(c, reply) ==
  Outcome(c,
          IF c.ret # "ok" THEN [ret |-> c.ret]
          ELSE IF "status" \notin DOMAIN reply THEN [ret |-> "KeyError"]
          ELSE [ret |-> IF reply.status THEN "True" ELSE "False"],
          c.sent, c.read, 1, c.n_oks)

\* XTB.ping(): result = json.loads(self.send(..)); return result["status"]
XTB_ping(s, t, req, connOut, io, reply) ==
  The({XTB_ping_return(c, reply) :
         c \in {json_call(s, t, req, PingCommand, connOut, io, reply, "XTB")}})

\* XtbUtils.ping(): "return result["status"] is True" inside try/except
\* (json.JSONDecodeError, KeyError, TypeError): return False. An exception
\* of send itself is none of the three.
XtbUtils_ping_return(c, reply) ==
  Outcome(c,
          IF Raised(c.send) THEN [ret |-> c.send]
          ELSE IF c.ret = "JSONDecodeError" THEN [ret |-> "False"]
          ELSE IF "status" \notin DOMAIN reply THEN [ret |-> "False"]
          ELSE [ret |-> IF reply.status THEN "True" ELSE "False"],
          c.sent, c.read, 1, c.n_oks)

\* XtbUtils.ping(): the command goes through the send callback.
XtbUtils_ping(s, t, req, connOut, io, reply, v) ==
  The({XtbUtils_ping_return(c, reply) :
         c \in {json_call(s, t, req, PingCommand, connOut, io, reply, v)}})

\* ------------------------------------------------------------- get_candles
\* period_map of XTB.get_candles
period_map ==
  [M1 |-> 1, M5 |-> 5, M15 |-> 15, M30 |-> 30, H1 |-> 60, H4 |-> 240,
   D1 |-> 1440, W1 |-> 10080, MN1 |-> 43200]

\* XTB.get_candles: "if period not in period_map: raise ValueError"
\* (XTB_market._resolve_period_minutes does the same).
get_candles_period(period) ==
  IF period \notin DOMAIN period_map THEN [ret |-> "ValueError"]
  ELSE [ret |-> "ok", period |-> period_map[period]]

\* XTB.get_candles_range: the if/elif chain over the nine tokens, which has
\* no else: any other value stays as it is.
get_candles_range_period(period) ==
  IF period \in DOMAIN period_map THEN PyInt(period_map[period])
  ELSE PyStr(period)

\* XTB.get_candles: extra_minutes
extra_minutes(qty_candles, period_minutes) ==
  IF qty_candles # 0 THEN qty_candles * period_minutes * 2 ELSE period_minutes

\* XTB.get_candles: start_timestamp = self.get_server_time() -
\* self.to_milliseconds(days=days, hours=hours, minutes=minutes);
\* total_minutes is computed on the line before and not used.
start_timestamp(server_time, timeframe, total_minutes) ==
  server_time
    - to_milliseconds(timeframe.days, timeframe.hours, timeframe.minutes)

\* A server time that is read off the local clock, with no request.
XTB_get_server_time_unasked(s, t, req, connOut, io, reply) ==
  Local(s, [ret |-> "ok", time |-> t * 1000])

\* XTB.get_server_time(): "time = result["returnData"]["time"]"
XTB_get_server_time_return(c, reply) ==
  Outcome(c,
          IF c.ret # "ok" THEN [ret |-> c.ret]
          ELSE IF "returnData" \notin DOMAIN reply THEN [ret |-> "KeyError"]
          ELSE [ret |-> "ok", time |-> reply.returnData.time],
          c.sent, c.read, 1, c.n_oks)

\* XTB.get_server_time()
XTB_get_server_time(s, t, req, connOut, io, reply) ==
  The({XTB_get_server_time_return(c, reply) :
         c \in {json_call(s, t, req, ServerTimeCommand, connOut, io, reply, "XTB")}})

\* XTB.get_candles: "return self._parse_candle_response(response_data,
\* qty_candles)", g being the outcome of get_server_time and c that of the
\* chart request.
XTB_get_candles_return(g, c, reply2, qty_candles) ==
  Outcome(c,
          IF c.ret # "ok" THEN [ret |-> c.ret]
          ELSE parse_candle_response(reply2, qty_candles),
          g.sent \o c.sent, g.read \o c.read, 2, g.n_oks + c.n_oks)

\* XTB.get_candles from the return of get_server_time on: the start of
\* the window, the payload, the chart request.
XTB_get_candles_request(g, t, req, period_minutes, qty_candles, timeframe, connOut, io2, reply2) ==
  IF g.ret # "ok" THEN g
  ELSE
  LET total_minutes ==
        timeframe.minutes + extra_minutes(qty_candles, period_minutes)
      payload ==
        prepare_candle_payload(
          PyInt(period_minutes),
          start_timestamp(g.out.time, timeframe, total_minutes))
  IN  The({XTB_get_candles_return(g, c, reply2, qty_candles) :
             c \in {json_call(g.s, t, req + 1, payload, connOut, io2, reply2, "XTB")}})

\* XTB.get_candles(period, symbol, qty_candles, timeframe): the period is
\* resolved, the server's time is asked for, the chart request is sent and
\* its reply shaped. Both sends happen at the same reading of the clock.
XTB_get_candles(s, t, req, period, qty_candles, timeframe, connOut, io1, reply1, io2, reply2) ==
  LET p == get_candles_period(period)
  IN  IF p.ret # "ok" THEN Local(s, [ret |-> p.ret])
      ELSE The({XTB_get_candles_request(g, t, req, p.period, qty_candles,
                                        timeframe, connOut, io2, reply2) :
                  g \in {XTB_get_server_time(s, t, req, connOut, io1, reply1)}})

\* ------------------------------------------------------- get_candles_range
\* XTB.get_candles_range: the defaults of end and start. An end that is not
\* 0 leaves both as they were given; otherwise end is the local time, and a
\* start of 0 becomes end - days, or end - period * qty_candles minutes.
\* With a period the chain left as text, period * qty_candles is text and
\* timedelta raises TypeError.
range_defaults(period, start, end, days, qty_candles, t) ==
  IF end # Unspecified THEN [ret |-> "ok", start |-> start, end |-> end]
  ELSE
  LET e == strftime(get_time(t))
      temp == strptime(e).dt
  IN  IF start # Unspecified THEN [ret |-> "ok", start |-> start, end |-> e]
      ELSE IF qty_candles = 0
        THEN [ret |-> "ok",
              start |-> strftime(DateTime(TotalSeconds(temp) - days * 86400)),
              end |-> e]
      ELSE IF period \notin DOMAIN period_map THEN [ret |-> "TypeError"]
      ELSE [ret |-> "ok",
            start |-> strftime(DateTime(TotalSeconds(temp)
                         - get_candles_range_period(period).int * qty_candles * 60)),
            end |-> e]

\* XTB.get_candles_range: the shaping of the reply, c being the outcome of
\* json.loads(self.send(candles_json)).
XTB_get_candles_range_return(c, reply, qty_candles) ==
  Outcome(c,
          IF c.ret # "ok" THEN [ret |-> c.ret]
          ELSE range_shape(reply, qty_candles),
          c.sent, c.read, 1, c.n_oks)

\* XTB.get_candles_range from the defaults on: w holds start and end as
\* date strings; both are converted, the request is sent.
XTB_get_candles_range_request(s, t, req, period, w, qty_candles, connOut, io, reply) ==
  IF w.ret # "ok" THEN Local(s, [ret |-> w.ret])
  ELSE
  LET sc == XTB_time_conversion(w.start)
      ec == XTB_time_conversion(w.end)
  IN  IF sc.ret # "ok" THEN Local(s, [ret |-> sc.ret])
      ELSE IF ec.ret # "ok" THEN Local(s, [ret |-> ec.ret])
      ELSE
      LET payload == chart_range_info_record(
                       get_candles_range_period(period), sc.ms, ec.ms)
      IN  The({XTB_get_candles_range_return(c, reply, qty_candles) :
                 c \in {json_call(s, t, req, payload, connOut, io, reply, "XTB")}})

\* XTB.get_candles_range(period, symbol, start, end, days, qty_candles)
XTB_get_candles_range(s, t, req, period, start, end, days, qty_candles, connOut, io, reply) ==
  The({XTB_get_candles_range_request(s, t, req, period, w, qty_candles,
                                     connOut, io, reply) :
         w \in {range_defaults(period, start, end, days, qty_candles, t)}})

\* ----------------------------------------------------------------- is_open
\* XTB.is_open: False if len(candles)==1, else True, g being the outcome
\* of get_candles. get_candles returns False for "no data", and len(False)
\* raises TypeError.
XTB_is_open_return(g) ==
  LET out == IF g.ret = "False" THEN [ret |-> "TypeError"]
             ELSE IF g.ret # "list" THEN [ret |-> g.ret]
             ELSE [ret |-> IF ListLen(g.out) = 1 THEN "False" ELSE "True"]
  IN  [g EXCEPT !.ret = out.ret, !.out = out]

\* XTB.is_open(symbol): candles = self.get_candles("M1", symbol,
\* qty_candles=1)
XTB_is_open(s, t, req, connOut, io1, reply1, io2, reply2) ==
  The({XTB_is_open_return(g) :
         g \in {XTB_get_candles(s, t, req, "M1", 1,
                                [days |-> 0, hours |-> 0, minutes |-> 0],
                                connOut, io1, reply1, io2, reply2)}})

\* XtbUtils.is_open(symbol): self.get_candles(..), a method XtbUtils does
\* not have.
XtbUtils_is_open(s) == Local(s, [ret |-> "AttributeError"])

\* ================================================================= threads
\* The threads that share the session, and a thread that is not in send().
Threads == 1..MaxThreads

Idle == [pc |-> "idle", req |-> 0, reply_to |-> 0]

\* send: "self.ws.send(msg)", as one thread executes it on the fields it
\* finds.
send_write(s, req, io) ==
  IF s.ws = 0 THEN [s |-> s, ret |-> "AttributeError"]
  ELSE IF ~s.socks[s.ws].open THEN [s |-> s, ret |-> "WebSocketException"]
  ELSE IF io = "write_raises" THEN [s |-> Broken(s), ret |-> "OSError"]
  ELSE [s |-> ws_send(s, req), ret |-> "ok"]

\* send: "result = self.ws.recv()", as one thread executes it on the fields
\* it finds.
send_read(s, io) ==
  IF ~s.socks[s.ws].open
    THEN [s |-> s, ret |-> "WebSocketException", reply_to |-> 0]
  ELSE IF io = "read_raises"
    THEN [s |-> Broken(s), ret |-> "WebSocketException", reply_to |-> 0]
  ELSE LET r == ws_recv(s)
       IN  [s |-> r.s, ret |-> "ok", reply_to |-> r.reply_to]

\* No candle, time or ping operation has run.
NoApp == [op |-> "none"]

\* -------------------------------------------------------------------- Init
Init ==
  /\ variant \in Variants
  /\ phase = "new"
  /\ now = 0
  /\ ws = 0
  /\ exec_start = 0
  /\ socks = <<>>
  /\ trace = <<>>
  /\ calls = 0
  /\ oks = 0
  /\ last = NoOp
  /\ app = NoApp
  /\ thr = [th \in Threads |-> Idle]

\* ----------------------------------------------------------------- actions
\* XTB(user_id, user_pswd) / XTBConnectionManager() /
\* XtbConnectivity(user_id, user_pswd)
Construct ==
  /\ phase = "new"
  /\ \E connOut \in LibOutcomes, io \in IoOutcomes, reply \in Replies :
       LET r == CASE variant = "XTB" -> XTB_init(Cur, now, connOut, io, reply)
                  [] variant = "XtbConnectivity" -> XtbConnectivity_init(Cur, now)
                  [] OTHER -> XTBConnectionManager_init(Cur, now, connOut)
       IN  /\ Set(r.s)
           /\ phase' = IF Raised(r.ret) THEN "failed" ELSE "live"
           /\ calls' = IF variant = "XTB" THEN 1 ELSE 0
           /\ oks' = IF r.send = "ok" THEN 1 ELSE 0
           /\ last' = Done("init", r, calls', reply)
  /\ UNCHANGED <<thr, variant, now, app>>

\* Wall-clock time passes between two operations.
Tick ==
  /\ phase = "live"
  /\ \E d \in TickSteps :
       /\ now + d <= MaxTime
       /\ now' = now + d
  /\ UNCHANGED <<thr, variant, phase, ws, exec_start, socks, trace, calls, oks, last, app>>

\* connect() called by the user
Connect ==
  /\ phase = "live"
  /\ \E connOut \in LibOutcomes :
       LET c == connect(Cur, connOut, variant)
           r == [s |-> c.s, ret |-> c.ret, send |-> "none", reply_to |-> 0,
                 descr |-> "none"]
       IN  /\ Room(r.s)
           /\ Set(r.s)
           /\ last' = Done("connect", r, 0, "none")
  /\ UNCHANGED <<thr, variant, phase, now, calls, oks, app>>

\* disconnect() called by the user
Disconnect ==
  /\ phase = "live"
  /\ \E closeOut \in LibOutcomes :
       LET d == disconnect(Cur, closeOut, variant)
           r == [s |-> d.s, ret |-> d.ret, send |-> "none", reply_to |-> 0,
                 descr |-> "none"]
       IN  /\ Set(r.s)
           /\ last' = Done("disconnect", r, 0, "none")
  /\ UNCHANGED <<thr, variant, phase, now, calls, oks, app>>

\* send(msg) called for any command other than login and logout
Send ==
  /\ phase = "live"
  /\ calls < MaxCalls
  /\ \E connOut \in ConnInputs : \E io \in IoInputs(connOut) :
       LET x == send(Cur, now, calls + 1, connOut, io, variant)
           r == [s |-> x.s, ret |-> x.ret, send |-> x.ret,
                 reply_to |-> x.reply_to, descr |-> "none"]
       IN  /\ Room(r.s)
           /\ Set(r.s)
           /\ oks' = IF r.send = "ok" THEN oks + 1 ELSE oks
           /\ last' = Done("send", r, calls + 1, "none")
  /\ calls' = calls + 1
  /\ UNCHANGED <<thr, variant, phase, now, app>>

\* login()
Login ==
  /\ phase = "live"
  /\ calls < MaxCalls
  /\ \E connOut \in ConnInputs : \E io \in IoInputs(connOut) :
     \E reply \in ReplyInputs(connOut, io) :
       LET r == login(Cur, now, calls + 1, connOut, io, reply, variant)
       IN  /\ Room(r.s)
           /\ Set(r.s)
           /\ calls' = IF r.send = "none" THEN calls ELSE calls + 1
           /\ oks' = IF r.send = "ok" THEN oks + 1 ELSE oks
           /\ last' = Done("login", r, calls + 1, reply)
  /\ UNCHANGED <<thr, variant, phase, now, app>>

\* logout()
Logout ==
  /\ phase = "live"
  /\ calls < MaxCalls
  /\ \E connOut \in ConnInputs : \E io \in IoInputs(connOut) :
     \E reply \in ReplyInputs(connOut, io) :
     \E closeOut \in CloseInputs(connOut, io, reply) :
       LET x == logout(Cur, now, calls + 1, connOut, io, reply, closeOut, variant)
           r == [s |-> x.s, ret |-> x.ret, send |-> x.send,
                 reply_to |-> x.reply_to, descr |-> "none"]
       IN  /\ Room(r.s)
           /\ Set(r.s)
           /\ oks' = IF r.send = "ok" THEN oks + 1 ELSE oks
           /\ last' = Done("logout", r, calls + 1, reply)
  /\ calls' = calls + 1
  /\ UNCHANGED <<thr, variant, phase, now, app>>

Next ==
  \/ Construct
  \/ Tick
  \/ Connect
  \/ Disconnect
  \/ Send
  \/ Login
  \/ Logout

Spec == Init /\ [][Next]_vars

\* ===================================================== the pure functions
\* The replies and the counts the shaping functions are applied to.
Digits == {2, 5}
Bases == {0, 3}
ChartReplies ==
  {ChartReply(n, base, d) : n \in 0..MaxRates, base \in Bases, d \in Digits}
  \cup {ErrorReply}

SessionUnchanged ==
  UNCHANGED <<thr, variant, phase, now, ws, exec_start, socks, trace, calls, oks, last>>

\* _parse_candle_response(data, qty_candles)
ParseCandleResponse ==
  /\ \E data \in ChartReplies, k \in 0..MaxQty :
       app' = [op |-> "parse", data |-> data, qty_candles |-> k,
               out |-> parse_candle_response(data, k)]
  /\ SessionUnchanged

\* the shaping at the end of XTB.get_candles_range
RangeShape ==
  /\ \E data \in ChartReplies, k \in 0..MaxQty :
       app' = [op |-> "range_shape", data |-> data, qty_candles |-> k,
               out |-> range_shape(data, k)]
  /\ SessionUnchanged

\* The date strings time_conversion is applied to: well-formed ones from
\* 01/01/1970 on, some naming no date, some in another layout.
DateInputs ==
  {DateStr(fmt, mo, dd, 1970, HH, MM, SS) :
     fmt \in {MDY, YMD}, mo \in {1, 13}, dd \in {1, 2, 24, 32},
     HH \in {0, 23}, MM \in {0, 59}, SS \in {0, 59}}

\* time_conversion(date) of class XTB and of class XtbUtils
TimeConversion ==
  /\ \E cls \in {"XTB", "XtbUtils"}, date \in DateInputs :
       app' = [op |-> "time_conversion", cls |-> cls, date |-> date,
               out |-> time_conversion(cls, date)]
  /\ SessionUnchanged

\* The durations to_milliseconds is applied to, negative ones included.
Durations == (-MaxDuration)..MaxDuration

\* to_milliseconds(days, hours, minutes) of class XTB and of class XtbUtils
ToMilliseconds ==
  /\ \E days \in Durations, hours \in Durations, minutes \in Durations :
       app' = [op |-> "to_milliseconds", days |-> days, hours |-> hours,
               minutes |-> minutes, out |-> to_milliseconds(days, hours, minutes)]
  /\ SessionUnchanged

InitPure ==
  /\ variant = "XTB"
  /\ phase = "new"
  /\ now = 0
  /\ ws = 0
  /\ exec_start = 0
  /\ socks = <<>>
  /\ trace = <<>>
  /\ calls = 0
  /\ oks = 0
  /\ last = NoOp
  /\ app = NoApp
  /\ thr = [th \in Threads |-> Idle]

NextPure ==
  \/ ParseCandleResponse
  \/ RangeShape
  \/ TimeConversion
  \/ ToMilliseconds

SpecPure == InitPure /\ [][NextPure]_vars

\* ========================================================== the operations
\* The arguments the operations are called with and the replies the server
\* gives. "M2" is a token outside the enumeration; the
\* start dates lie before and after the end date.
PeriodInputs == {"M5", "M2"}
QtyInputs == {0, 2}
Timeframes ==
  {[days |-> 0, hours |-> 0, minutes |-> 0],
   [days |-> 1, hours |-> 2, minutes |-> 3]}
StartDates ==
  {Unspecified, DateStr(MDY, 1, 5, 1970, 0, 0, 0), DateStr(MDY, 1, 7, 1970, 0, 0, 0),
   DateStr(YMD, 1, 5, 1970, 0, 0, 0)}
EndDates ==
  {Unspecified, DateStr(MDY, 1, 6, 1970, 12, 30, 0), DateStr(MDY, 1, 32, 1970, 0, 0, 0)}
DaysInputs == {2}

\* The pairs of start and end get_candles_range is called with: a date that
\* is malformed, or a start after the end, comes with one partner only.
Windows ==
  {w \in [start : StartDates, end : EndDates] :
     /\ strptime(w.end).ret = "ValueError" => w.start = DateStr(MDY, 1, 5, 1970, 0, 0, 0)
     /\ w.start \in {DateStr(MDY, 1, 7, 1970, 0, 0, 0), DateStr(YMD, 1, 5, 1970, 0, 0, 0)}
          => w.end = DateStr(MDY, 1, 6, 1970, 12, 30, 0)}
ServerTimes == {900000000}
PingReplies == {StatusReply, ErrorReply, NotJson}
TimeReplies == {TimeReply(time) : time \in ServerTimes} \cup {ErrorReply, NotJson}
ChartAnswers == {ChartReply(n, 0, 5) : n \in {0, 3}} \cup {ErrorReply, NotJson}

\* The classes whose method of a name can be called in a session: XtbUtils
\* wraps the send of any session, the methods of XTB exist on XTB only.
Classes == IF variant = "XTB" THEN {"XTB", "XtbUtils"} ELSE {"XtbUtils"}

\* The reply is drawn only when it is read.
Answers(connOut, io, replies) ==
  IF io = "ok" /\ IoInputs(connOut) = IoOutcomes THEN replies ELSE {NotJson}

\* The outcome of the second write and read of get_candles is drawn only
\* when the first reply carried the server's time.
SecondIo(connOut, io1, reply1) ==
  IF Answers(connOut, io1, TimeReplies) = TimeReplies
     /\ "returnData" \in DOMAIN reply1
    THEN IoOutcomes ELSE {"ok"}

SecondAnswers(connOut, io1, reply1, io2) ==
  IF SecondIo(connOut, io1, reply1) = IoOutcomes /\ io2 = "ok"
    THEN ChartAnswers ELSE {NotJson}

\* The outcomes of the library calls and the replies are drawn only for a
\* call that gets as far as send(): get_candles with a period of the
\* enumeration, get_candles_range when the defaults and the two
\* conversions raise nothing.
Drawn(reaches_send, inputs, none) == IF reaches_send THEN inputs ELSE {none}

get_candles_sends(period) == get_candles_period(period).ret = "ok"

get_candles_range_sends(period, start, end, days, qty_candles, t) ==
  LET w == range_defaults(period, start, end, days, qty_candles, t)
  IN  /\ w.ret = "ok"
      /\ XTB_time_conversion(w.start).ret = "ok"
      /\ XTB_time_conversion(w.end).ret = "ok"

\* The record of a candle, time or ping operation: the class and the
\* arguments, the handle and the timestamp before it, the payloads it wrote,
\* the replies it read, and what it returned or raised.
AppOf(op, cls, args, r) ==
  [op |-> op, cls |-> cls, args |-> args,
   before |-> [ws |-> ws, exec_start |-> exec_start],
   sent |-> r.sent, read |-> r.read, out |-> r.out]

Record(op, cls, args, r) ==
  /\ Room(r.s)
  /\ Set(r.s)
  /\ calls' = calls + r.n_calls
  /\ oks' = oks + r.n_oks
  /\ last' = Done(op, r, calls + 1, r.reply)
  /\ app' = AppOf(op, cls, args, r)

\* ping()
Ping ==
  /\ phase = "live"
  /\ calls < MaxCalls
  /\ \E cls \in Classes :
     \E connOut \in ConnInputs : \E io \in IoInputs(connOut) :
     \E reply \in Answers(connOut, io, PingReplies) :
     \E r \in {IF cls = "XTB"
                  THEN XTB_ping(Cur, now, calls + 1, connOut, io, reply)
                  ELSE XtbUtils_ping(Cur, now, calls + 1, connOut, io, reply,
                                     variant)} :
       Record("ping", cls, [none |-> 0], r)
  /\ UNCHANGED <<thr, variant, phase, now>>

\* get_candles(period, symbol, qty_candles, timeframe)
GetCandles ==
  /\ phase = "live"
  /\ variant = "XTB"
  /\ calls < MaxCalls
  /\ \E period \in PeriodInputs, qty_candles \in QtyInputs, timeframe \in Timeframes :
     \E sends \in {get_candles_sends(period)} :
     \E connOut \in Drawn(sends, ConnInputs, "ok") :
     \E io1 \in Drawn(sends, IoInputs(connOut), "ok") :
     \E reply1 \in Drawn(sends, Answers(connOut, io1, TimeReplies), NotJson) :
     \E io2 \in Drawn(sends, SecondIo(connOut, io1, reply1), "ok") :
     \E reply2 \in Drawn(sends, SecondAnswers(connOut, io1, reply1, io2), NotJson) :
     \E r \in {XTB_get_candles(Cur, now, calls + 1, period, qty_candles,
                                timeframe, connOut, io1, reply1, io2, reply2)} :
       Record("get_candles", "XTB",
              [period |-> period, qty_candles |-> qty_candles,
               timeframe |-> timeframe], r)
  /\ UNCHANGED <<thr, variant, phase, now>>

\* get_candles_range(period, symbol, start, end, days, qty_candles)
GetCandlesRange ==
  /\ phase = "live"
  /\ variant = "XTB"
  /\ calls < MaxCalls
  /\ \E period \in PeriodInputs, w \in Windows, days \in DaysInputs,
        qty_candles \in QtyInputs :
     \E sends \in {get_candles_range_sends(period, w.start, w.end, days,
                                           qty_candles, now)} :
     \E connOut \in Drawn(sends, ConnInputs, "ok") :
     \E io \in Drawn(sends, IoInputs(connOut), "ok") :
     \E reply \in Drawn(sends, Answers(connOut, io, ChartAnswers), NotJson) :
     \E r \in {XTB_get_candles_range(Cur, now, calls + 1, period, w.start, w.end,
                                      days, qty_candles, connOut, io, reply)} :
       Record("get_candles_range", "XTB",
              [period |-> period, start |-> w.start, end |-> w.end,
               days |-> days, qty_candles |-> qty_candles], r)
  /\ UNCHANGED <<thr, variant, phase, now>>

\* is_open(symbol)
IsOpen ==
  /\ phase = "live"
  /\ calls < MaxCalls
  /\ \E cls \in Classes :
     \E connOut \in ConnInputs : \E io1 \in IoInputs(connOut) :
     \E reply1 \in Answers(connOut, io1, TimeReplies) :
     \E io2 \in SecondIo(connOut, io1, reply1) :
     \E reply2 \in SecondAnswers(connOut, io1, reply1, io2) :
     \E r \in {IF cls = "XTB"
                  THEN XTB_is_open(Cur, now, calls + 1, connOut, io1, reply1,
                                   io2, reply2)
                  ELSE XtbUtils_is_open(Cur)} :
       Record("is_open", cls, [none |-> 0], r)
  /\ UNCHANGED <<thr, variant, phase, now>>

NextOps ==
  \/ Construct
  \/ Tick
  \/ Ping
  \/ GetCandles
  \/ GetCandlesRange
  \/ IsOpen

SpecOps == Init /\ [][NextOps]_vars

\* ===================================================== threads in send()
\* A thread calls send(msg): it enters the method.
SendCall(th) ==
  /\ phase = "live"
  /\ thr[th].pc = "idle"
  /\ thr' = [thr EXCEPT ![th] = [pc |-> "is_on", req |-> calls + 1, reply_to |-> 0]]
  /\ calls' = calls + 1
  /\ UNCHANGED <<variant, phase, now, ws, exec_start, socks, trace, oks, last, app>>

\* send: "self.is_on()", taken as one step: what other threads do while a
\* thread is inside is_on() is left out.
SendIsOn(th) ==
  /\ thr[th].pc = "is_on"
  /\ \E connOut \in ConnInputs :
     \E a \in {is_on(Cur, now, connOut, variant)} :
       /\ Room(a.s)
       /\ Set(a.s)
       /\ thr' = [thr EXCEPT ![th].pc = IF Raised(a.ret) THEN "raised" ELSE "write"]
  /\ UNCHANGED <<variant, phase, now, calls, oks, last, app>>

\* send: "self.ws.send(msg)"
SendWrite(th) ==
  /\ thr[th].pc = "write"
  /\ \E io \in IF Usable(Cur) THEN {"ok", "write_raises"} ELSE {"ok"} :
     \E w \in {send_write(Cur, thr[th].req, io)} :
       /\ Set(w.s)
       /\ thr' = [thr EXCEPT ![th].pc = IF Raised(w.ret) THEN "raised" ELSE "read"]
  /\ UNCHANGED <<variant, phase, now, calls, oks, last, app>>

\* send: "result = self.ws.recv()"; "return result". The read blocks until
\* the socket holds a reply.
SendRead(th) ==
  /\ thr[th].pc = "read"
  /\ \E io \in IF Usable(Cur) THEN {"ok", "read_raises"} ELSE {"ok"} :
       /\ (Usable(Cur) /\ io = "ok") => socks[ws].pending # <<>>
       /\ \E r \in {send_read(Cur, io)} :
            /\ Set(r.s)
            /\ thr' = [thr EXCEPT ![th].pc = IF Raised(r.ret) THEN "raised" ELSE "returned",
                                  ![th].reply_to = r.reply_to]
            /\ oks' = IF Raised(r.ret) THEN oks ELSE oks + 1
  /\ UNCHANGED <<variant, phase, now, calls, last, app>>

NextThreads ==
  \/ Construct
  \/ Tick
  \/ \E th \in Threads : SendCall(th)
  \/ \E th \in Threads : SendIsOn(th)
  \/ \E th \in Threads : SendWrite(th)
  \/ \E th \in Threads : SendRead(th)

SpecThreads == Init /\ [][NextThreads]_vars

\* ================================================================== claims
\* The operations that invoke send().
CallOps == {"send", "login", "logout"}

IsConnect(e) == e \in {"connect_ok", "connect_failed"}

ConnectAttempts(ev) == Cardinality({i \in DOMAIN ev : IsConnect(ev[i])})

ConnectsPrecedeWrites(ev) ==
  \A i, j \in DOMAIN ev : (IsConnect(ev[i]) /\ ev[j] = "write") => i < j

IsTransfer(e) == e \in {"write", "read"}

Has(ev, e) == \E i \in DOMAIN ev : ev[i] = e

\* C1: a call made 8 seconds or more after the recorded activity makes
\* exactly one connect attempt, before anything is written; a call made
\* earlier makes none.
C1_LivenessThreshold ==
  (last.op \in CallOps /\ last.send # "none") =>
    IF last.elapsed >= 8
      THEN ConnectAttempts(last.ev) = 1 /\ ConnectsPrecedeWrites(last.ev)
      ELSE ConnectAttempts(last.ev) = 0

\* A call made exactly at the threshold reconnected and then wrote and read.
C1_Witness ==
  /\ last.op = "send"
  /\ last.elapsed = 8
  /\ last.ev = <<"connect_ok", "write", "read">>

\* C2 as stated: every call on a session, whatever its outcome, writes once
\* and then reads once, so n calls leave the trace w,r,w,r,... of length 2n, the
\* i-th read being the reply to the i-th request.
C2_EveryCallWritesThenReads ==
  phase = "live" =>
    /\ Len(trace) = 2 * calls
    /\ \A i \in 1..calls :
         trace[2 * i - 1] = <<"w", i>> /\ trace[2 * i] = <<"r", i>>

\* C2 amended: a call that returns a reply has written exactly once and then
\* read exactly once and is handed the reply to its own request; when all
\* n calls so far returned a reply, the trace is w,r,w,r,... of length 2n,
\* the i-th read being the reply to the i-th request.
C2_ReturnedCallsWriteThenRead ==
  /\ last.send = "ok" =>
       /\ SelectSeq(last.ev, IsTransfer) = <<"write", "read">>
       /\ last.reply_to = last.req
  /\ oks = calls =>
       /\ Len(trace) = 2 * calls
       /\ \A i \in 1..calls :
            trace[2 * i - 1] = <<"w", i>> /\ trace[2 * i] = <<"r", i>>

\* Two calls were made back to back and both returned a reply.
C2_Witness ==
  /\ calls = 2
  /\ oks = 2
  /\ trace = <<<<"w", 1>>, <<"r", 1>>, <<"w", 2>>, <<"r", 2>>>>

\* C3: when the connect attempt made by the liveness check fails, the call
\* raises and writes nothing.
C3_FailedReconnectFailsTheCall ==
  (last.op \in CallOps /\ Has(last.ev, "connect_failed")) =>
    Raised(last.send) /\ ~Has(last.ev, "write")

\* C4: after any invocation of XTB.send, whatever its outcome, exec_start
\* is the time of that invocation.
C4_StampOnEveryAttempt ==
  (variant = "XTB" /\ last.op \in CallOps) => exec_start = last.t

\* A call whose reconnect failed and which then raised, later than the
\* construction of the session.
C4_Witness ==
  /\ variant = "XTB"
  /\ last.op = "send"
  /\ last.t > 0
  /\ Has(last.ev, "connect_failed")
  /\ Raised(last.send)
  /\ exec_start = last.t

\* C5: a logout of class XTB whose command was written and answered calls
\* disconnect() (which calls close() on the socket), whatever the answer.
C5_LogoutAlwaysDisconnects ==
  (variant = "XTB" /\ last.op = "logout" /\ last.send = "ok") =>
    Has(last.ev, "close") \/ Has(last.ev, "close_failed")

\* C6: disconnect() returns normally also when no connection was ever
\* opened.
C6_DisconnectNeverRaises ==
  (last.op = "disconnect" /\ ws = 0) => ~Raised(last.ret)

\* C7: a login answered with status false and an errorDescr raises an
\* error that carries the errorDescr.
C7_RejectedLoginCarriesDescr ==
  (last.op = "login" /\ last.reply = "status_false") =>
    Raised(last.ret) /\ last.descr = "errorDescr"

\* C8: a login invoked while the session is DISCONNECTED writes nothing and
\* opens no transport.
C8_LoginOnlyWhenConnected ==
  (last.op = "login" /\ last.before = "DISCONNECTED") =>
    ~Has(last.ev, "write") /\ ~Has(last.ev, "connect_ok")

\* C9: a connect() that succeeded has set exec_start to the time it ran.
C9_ConnectResetsLivenessClock ==
  (last.op = "connect" /\ last.ret = "True") => exec_start = last.t

IsChartReply(data) == "returnData" \in DOMAIN data
Shaped == app.op \in {"parse", "range_shape"} /\ IsChartReply(app.data)
Rates == app.data.returnData.rateInfos

\* The price record p has exactly the five fields, with the values of rate.
CopiedFrom(p, rate) ==
  /\ DOMAIN p = {"datetime", "open", "close", "high", "low"}
  /\ p.datetime = rate.ctmString
  /\ p.open = rate.open
  /\ p.close = rate.close
  /\ p.high = rate.high
  /\ p.low = rate.low

\* C14: for a reply with n >= 1 rate records and a count k >= 1,
\* _parse_candle_response returns the metadata record, which forwards the
\* reply's digits, followed by exactly min(k, n) price records: the last
\* min(k, n) rate records in their order, their five fields unchanged.
C14_TrailingSlice ==
  (Shaped /\ app.op = "parse" /\ Len(Rates) >= 1 /\ app.qty_candles >= 1) =>
    LET n == Len(Rates)
        m == IF app.qty_candles <= n THEN app.qty_candles ELSE n
    IN  /\ app.out.ret = "list"
        /\ app.out.meta.digits = app.data.returnData.digits
        /\ Len(app.out.prices) = m
        /\ \A j \in 1..m : CopiedFrom(app.out.prices[j], Rates[n - m + j])

\* A reply of 4 records shaped with count 3: the result holds its last 3.
C14_Witness ==
  /\ Shaped /\ app.op = "parse"
  /\ Len(Rates) = 4
  /\ app.qty_candles = 3
  /\ Len(app.out.prices) = 3
  /\ app.out.prices[1].datetime = Rates[2].ctmString

\* C15: for a reply with n >= 1 rate records and count 0, the result has
\* n + 1 records, the metadata count is n, and the price records are all n
\* rate records in their order; on both candle paths.
C15_NoCountKeepsAll ==
  (Shaped /\ Len(Rates) >= 1 /\ app.qty_candles = 0) =>
    /\ app.out.ret = "list"
    /\ 1 + Len(app.out.prices) = Len(Rates) + 1
    /\ app.out.meta.qty_candles = Len(Rates)
    /\ \A j \in 1..Len(Rates) : CopiedFrom(app.out.prices[j], Rates[j])

\* A reply of 4 records shaped without a count by _parse_candle_response.
C15_Witness ==
  /\ Shaped /\ app.op = "parse"
  /\ Len(Rates) = 4
  /\ app.qty_candles = 0
  /\ app.out.meta.qty_candles = 4
  /\ Len(app.out.prices) = 4

\* C16: on both candle paths a reply whose rateInfos is empty yields False:
\* a normal result, no sequence and no exception.
C16_EmptyReplyIsNoData ==
  (Shaped /\ Len(Rates) = 0) => app.out.ret = "False"

\* An empty reply shaped by _parse_candle_response with a count.
C16_Witness ==
  /\ Shaped /\ app.op = "parse"
  /\ Len(Rates) = 0
  /\ app.qty_candles = 1
  /\ app.out.ret = "False"

\* C20: time_conversion returns, for every well-formed MM/DD/YYYY HH:MM:SS
\* string, 1000 times the whole seconds from 01/01/1970 00:00:00 to it, with
\* no offset added (0 for the epoch itself, 86400000 for 01/02/1970
\* 00:00:00), and fails with a format error for every other string.
C20_EpochMillis ==
  app.op = "time_conversion" =>
    LET p == strptime(app.date)
    IN  IF p.ret = "ok"
          THEN app.out.ret = "ok" /\ app.out.ms = 1000 * TotalSeconds(p.dt)
          ELSE app.out.ret = "ValueError"

\* The candle, time and ping operations built on send().
AppOps == {"ping", "get_candles", "get_candles_range", "is_open"}

CandleOps == {"get_candles", "get_candles_range"}

\* A date string that datetime.strptime rejects.
Malformed(date) == date.kind = "str" /\ strptime(date).ret # "ok"

\* C11: an operation whose send fails on the write or the read fails with
\* that transport error, and an operation that reads a reply that is not
\* JSON fails with the parse error; in neither case does it return a value.
C11_FailedCallFailsTheOperation ==
  last.op \in AppOps =>
    /\ last.send \in {"OSError", "WebSocketException"} => app.out.ret = last.send
    /\ last.reply = "not_json" => app.out.ret = "JSONDecodeError"

\* C12: in get_candles and in get_candles_range a period token of the
\* enumeration is sent as its number of minutes, and any other token makes
\* the operation fail with the invalid-period error.
C12_PeriodEnumerationIsClosed ==
  app.op \in CandleOps =>
    IF app.args.period \in DOMAIN period_map
      THEN \A i \in 1..Len(app.sent) :
             app.sent[i].command # "getServerTime" =>
               app.sent[i].period = PyInt(period_map[app.args.period])
      ELSE app.out.ret = "ValueError"

\* C13: a candle operation given a period token outside the enumeration or
\* a date string that is not a MM/DD/YYYY HH:MM:SS date writes nothing,
\* makes no library call, and leaves the socket handle and the liveness
\* timestamp as they were.
C13_BadArgumentsRejectedLocally ==
  ( /\ app.op \in CandleOps
    /\ \/ app.args.period \notin DOMAIN period_map
       \/ /\ app.op = "get_candles_range"
          /\ Malformed(app.args.start) \/ Malformed(app.args.end) )
  => /\ app.sent = <<>>
     /\ last.ev = <<>>
     /\ ws = app.before.ws
     /\ exec_start = app.before.exec_start

\* C17: is_open asks for M1 candles, and once the chart request is answered
\* in JSON it returns False when the answer holds no rate record and True
\* when it holds one or more.
C17_IsOpenReturnsBoolean ==
  (app.op = "is_open" /\ Len(app.read) = 2 /\ IsJson(app.read[2])) =>
    /\ app.sent[2].period = PyInt(period_map["M1"])
    /\ app.out.ret = IF rate_infos_of(app.read[2]) = <<>> THEN "False" ELSE "True"

\* C18: the start written in the getChartLastRequest of get_candles is the
\* server's time minus to_milliseconds(days, hours, minutes + extra), where
\* extra is qty_candles * period * 2, or the period when qty_candles is 0.
C18_RecentWindowStart ==
  (app.op = "get_candles" /\ Len(app.sent) = 2) =>
    LET tf == app.args.timeframe
        extra == extra_minutes(app.args.qty_candles, period_map[app.args.period])
    IN  app.sent[2].start =
          app.read[1].returnData.time
            - to_milliseconds(tf.days, tf.hours, tf.minutes + extra)

\* C19: in get_candles_range with a period of the enumeration and no
\* malformed date, an end of 0 is the local time, and a start of 0, whether
\* the end was given or not, is the end minus days (qty_candles = 0) or
\* minus period * qty_candles minutes; both are converted by
\* time_conversion and written in the request.
C19_RangeWindowDefaults ==
  ( /\ app.op = "get_candles_range"
    /\ app.args.period \in DOMAIN period_map
    /\ ~Malformed(app.args.start) /\ ~Malformed(app.args.end) )
  => LET a == app.args
         end == IF a.end = Unspecified THEN strftime(get_time(last.t)) ELSE a.end
         back == IF a.qty_candles = 0 THEN a.days * 86400
                 ELSE period_map[a.period] * a.qty_candles * 60
         start == IF a.start = Unspecified
                    THEN strftime(DateTime(TotalSeconds(strptime(end).dt) - back))
                    ELSE a.start
     IN  /\ app.out.ret \notin {"TypeError", "ValueError"}
         /\ app.sent # <<>> =>
              /\ app.sent[1].start = XTB_time_conversion(start).ms
              /\ app.sent[1].end = XTB_time_conversion(end).ms

\* ------------------------------------------------------- C21..C30
\* C21: whenever get_candles_range writes a getChartRangeRequest, the start
\* written is at most the end written, whatever start, end, days and
\* qty_candles the caller passed.
C21_RangeStartNotAfterEnd ==
  (app.op = "get_candles_range" /\ app.sent # <<>>) =>
    app.sent[1].start <= app.sent[1].end

\* C22: to_milliseconds(days, hours, minutes) is days*86400000 +
\* hours*3600000 + minutes*60000 for all integers, negative ones included:
\* negating the three arguments negates the result; and
\* to_milliseconds(1, 2, 3) is 93780000.
C22_ToMilliseconds ==
  app.op = "to_milliseconds" =>
    /\ app.out = app.days * 86400000 + app.hours * 3600000 + app.minutes * 60000
    /\ to_milliseconds(-app.days, -app.hours, -app.minutes) = -app.out
    /\ (app.days = 1 /\ app.hours = 2 /\ app.minutes = 3) => app.out = 93780000

\* to_milliseconds(-1, -2, -3) returned -93780000.
C22_Witness ==
  /\ app.op = "to_milliseconds"
  /\ app.days = -1 /\ app.hours = -2 /\ app.minutes = -3
  /\ app.out = -93780000

\* The commands of the payloads an operation wrote, in order.
Commands(sent) == [i \in 1..Len(sent) |-> sent[i].command]

IsPrefix(p, s) == Len(p) <= Len(s) /\ \A i \in 1..Len(p) : p[i] = s[i]

\* The operation returned a value: a list, or False for "no data".
Returned(out) == out.ret \in {"list", "False"}

\* The last 2 * n entries of the transport trace are the writes of the
\* requests first, first + 1, ..., each followed by the read of its reply.
EndsWithPairs(first, n) ==
  /\ Len(trace) >= 2 * n
  /\ \A i \in 1..n :
       /\ trace[Len(trace) - 2 * n + 2 * i - 1] = <<"w", first + i - 1>>
       /\ trace[Len(trace) - 2 * n + 2 * i] = <<"r", first + i - 1>>

\* C23 as stated: every get_candles call writes exactly two requests,
\* getServerTime and then one getChartLastRequest, each followed by its own
\* read; every get_candles_range call writes exactly one request, a
\* getChartRangeRequest, followed by its read.
C23_EveryCandleCallWritesItsRequests ==
  /\ app.op = "get_candles" =>
       /\ Commands(app.sent) = <<"getServerTime", "getChartLastRequest">>
       /\ SelectSeq(last.ev, IsTransfer) = <<"write", "read", "write", "read">>
  /\ app.op = "get_candles_range" =>
       /\ Commands(app.sent) = <<"getChartRangeRequest">>
       /\ SelectSeq(last.ev, IsTransfer) = <<"write", "read">>

\* C23 amended: a get_candles call that returns a value has written exactly
\* two requests, getServerTime and then one getChartLastRequest, each
\* followed by the read of its own reply before the next write; a
\* get_candles_range call that returns a value has written exactly one
\* request, a getChartRangeRequest, followed by the read of its reply. A
\* call that fails has written and read a prefix of that sequence: neither
\* operation retries or writes a second chart request.
C23_CandleMessageSequence ==
  /\ app.op = "get_candles" =>
       /\ IsPrefix(Commands(app.sent), <<"getServerTime", "getChartLastRequest">>)
       /\ IsPrefix(SelectSeq(last.ev, IsTransfer), <<"write", "read", "write", "read">>)
       /\ Returned(app.out) =>
            /\ Len(app.sent) = 2
            /\ Len(app.read) = 2
            /\ EndsWithPairs(last.req, 2)
  /\ app.op = "get_candles_range" =>
       /\ IsPrefix(Commands(app.sent), <<"getChartRangeRequest">>)
       /\ IsPrefix(SelectSeq(last.ev, IsTransfer), <<"write", "read">>)
       /\ Returned(app.out) =>
            /\ Len(app.sent) = 1
            /\ Len(app.read) = 1
            /\ EndsWithPairs(last.req, 1)

\* A get_candles call that returned a list after two writes, each followed
\* by its read.
C23_Witness ==
  /\ app.op = "get_candles"
  /\ app.out.ret = "list"
  /\ Commands(app.sent) = <<"getServerTime", "getChartLastRequest">>
  /\ SelectSeq(last.ev, IsTransfer) = <<"write", "read", "write", "read">>
  /\ EndsWithPairs(last.req, 2)

\* C24: for every chart reply and every count k >= 0, k greater than the
\* number of rate records included, the shaping inside get_candles_range
\* returns what _parse_candle_response returns for the same reply and k.
C24_RangeShapesLikeParse ==
  (Shaped /\ app.op = "range_shape") =>
    app.out = parse_candle_response(app.data, app.qty_candles)

\* C29: in every list returned by the shaping of a reply with n >= 1 rate
\* records, on either path and for every count k >= 0, the qty_candles of
\* the metadata record is the number of price records after it.
C29_MetaCountIsNumberOfPrices ==
  (Shaped /\ Len(Rates) >= 1 /\ app.out.ret = "list") =>
    app.out.meta.qty_candles = Len(app.out.prices)

\* The sockets the session created that are still open.
OpenSockets == {i \in DOMAIN socks : socks[i].open}

\* C25: after any sequence of operations at most one of the sockets the
\* session created is open: a connect() that stores a new handle has closed
\* the socket held before.
C25_AtMostOneOpenSocket == Cardinality(OpenSockets) <= 1

\* C26: a command other than login that is issued in a session that is
\* AUTHENTICATED is written only to a socket on which a login succeeded,
\* also when the liveness check replaced the socket before the write.
C26_AuthenticationSurvivesReconnect ==
  (last.op = "send" /\ last.before = "AUTHENTICATED" /\ Has(last.ev, "write")) =>
    socks[ws].authed

\* C28: a send that is the next operation after a disconnect() or a
\* logout() that closed the socket, however much time passed in between,
\* opens no new socket, writes nothing, and leaves the session
\* DISCONNECTED.
C28_StaysDisconnected ==
  [][(/\ last.op \in {"disconnect", "logout"}
      /\ Has(last.ev, "close")
      /\ last'.op = "send")
     => /\ ~Has(last'.ev, "connect_ok")
        /\ ~Has(last'.ev, "write")
        /\ StateOf(ws', socks') = "DISCONNECTED"]_vars

\* C27: when threads call send() on one session at the same time, nothing
\* reaches the transport between a call's write and its read, and a call
\* that returns is handed the reply to its own request.
C27_CallsAreAtomic ==
  \A th \in Threads :
    /\ thr[th].pc = "read" => trace[Len(trace)] = <<"w", thr[th].req>>
    /\ thr[th].pc = "returned" => thr[th].reply_to = thr[th].req

\* C30: a session of XtbConnectivity exists once its constructor ran, and
\* a call made on it 8 seconds or more of wall-clock time after the
\* recorded activity makes a connect attempt: its liveness check takes the
\* time afresh at each call.
C30_LivenessUsesFreshNow ==
  variant = "XtbConnectivity" =>
    /\ phase # "failed"
    /\ (last.op \in CallOps /\ last.send # "none" /\ last.elapsed >= Threshold) =>
         ConnectAttempts(last.ev) = 1

\* ------------------------------------------------------------- C31
\* C31: when the constructor of XTB returns, the session is AUTHENTICATED:
\* the socket is open and the server accepted the login. A failed
\* connect() or a rejected login makes the constructor raise.
C31_ConstructedMeansAuthenticated ==
  (variant = "XTB" /\ last.op = "init" /\ phase = "live") =>
    SessionState = "AUTHENTICATED"
====
